---------------------------- MODULE Spec2Model ----------------------------
(***************************************************************************)
(* Model of the ad-detection backend (ai-backend/api_server.py):           *)
(*   - the global oracle reference `model` and load_model / reload_model,  *)
(*   - the /predict handler: size check, parsing, batch cap, validation,   *)
(*     feature extraction, oracle calls, thresholding, selector, response, *)
(*   - the pure helpers validate_candidate, extract_features and           *)
(*     create_selector.                                                    *)
(*                                                                         *)
(* Conventions                                                             *)
(*   - A Python str is a sequence of one-character strings.                *)
(*   - A JSON value is a record [t, n, s, b]: t is its kind                *)
(*     ("absent" when the key is missing), n its number, s its string,    *)
(*     b its boolean.                                                      *)
(*   - A probability is an integer number of thousandths (0..1000); the   *)
(*     aspect ratio is an integer number of thousandths as well.           *)
(***************************************************************************)
EXTENDS Integers, Sequences, FiniteSets, TLC

VARIABLES
    model,        \* global `model` (api_server.py:36): None or the loaded oracle
    artifact,     \* ad_detector_model.pkl on disk: Absent, Corrupt or an oracle
    ppc,          \* position of the /predict worker
    body,         \* the request the /predict worker is serving
    candidates,   \* local `candidates` of predict, after the cap
    X,            \* local `X`: the feature matrix handed to the oracle
    zeroed,       \* items whose extraction raised (the logged warnings)
    predictions,  \* local `predictions` = model.predict(X)
    probabilities,\* local `probabilities` = model.predict_proba(X), ad column
    used,         \* which oracle served the check, predict and predict_proba
    response,     \* the response of the /predict worker
    rpc,          \* position of the /reload-model worker
    loaded,       \* the object pickle.load returned to the /reload-model worker
    rresponse,    \* the response of the /reload-model worker
    hresponse,    \* the last /health response
    sel,          \* input and result of the create_selector harness
    ext,          \* input and result of the extract_features harness
    gen           \* input and result of generate_training_data

vars == <<model, artifact, ppc, body, candidates, X, zeroed, predictions,
          probabilities, used, response, rpc, loaded, rresponse, hresponse, sel, ext, gen>>

---------------------------------------------------------------------------
(* Configuration constants and bounds *)

\* api_server.py:20 sets MAX_CANDIDATES = 500; the model scales the cap down
\* so that batches longer than the cap can be enumerated.
MAX_CANDIDATES == 2
MAX_REQUEST_SIZE_MB == 10
CONFIDENCE_THRESHOLD == 80

\* longest submitted adCandidates array
MaxBatch == 3
\* number of distinct trained oracles train_model.py may have written
MaxVersion == 2
\* longest id / classList / tag string of the create_selector harness
MaxStrLen == 2

None == 0
Absent == 0
Corrupt == -1
Oracles == 1..MaxVersion

---------------------------------------------------------------------------
(* Python strings *)

Space == " "
UpperChars == <<"A","B","C","D","E","F","G","H","I","J","K","L","M",
                "N","O","P","Q","R","S","T","U","V","W","X","Y","Z">>
LowerChars == <<"a","b","c","d","e","f","g","h","i","j","k","l","m",
                "n","o","p","q","r","s","t","u","v","w","x","y","z">>

IndexIn(seq, c) ==
    IF \E i \in 1..Len(seq) : seq[i] = c
    THEN CHOOSE i \in 1..Len(seq) : seq[i] = c
    ELSE 0

\* str.lower() and str.upper(), character by character
LowerChar(c) == IF IndexIn(UpperChars, c) > 0 THEN LowerChars[IndexIn(UpperChars, c)] ELSE c
UpperChar(c) == IF IndexIn(LowerChars, c) > 0 THEN UpperChars[IndexIn(LowerChars, c)] ELSE c
Lower(s) == [i \in 1..Len(s) |-> LowerChar(s[i])]
Upper(s) == [i \in 1..Len(s) |-> UpperChar(s[i])]

\* str.strip(): drop the leading and the trailing whitespace
RECURSIVE LStrip(_)
LStrip(s) == IF s # <<>> /\ Head(s) = Space THEN LStrip(Tail(s)) ELSE s
RECURSIVE RStrip(_)
RStrip(s) ==
    IF s # <<>> /\ s[Len(s)] = Space THEN RStrip(SubSeq(s, 1, Len(s) - 1)) ELSE s
Strip(s) == RStrip(LStrip(s))

\* str.split()[0]: the first whitespace-separated token (of a string that has one)
RECURSIVE TakeToken(_)
TakeToken(s) ==
    IF s = <<>> \/ Head(s) = Space THEN <<>> ELSE <<Head(s)>> \o TakeToken(Tail(s))
FirstToken(s) == TakeToken(LStrip(s))

---------------------------------------------------------------------------
(* JSON values as Python sees them *)

JV(t, n, s, b) == [t |-> t, n |-> n, s |-> s, b |-> b]
Missing == JV("absent", 0, <<>>, FALSE)
Null == JV("null", 0, <<>>, FALSE)
Num(n) == JV("num", n, <<>>, FALSE)
Str(s) == JV("str", 0, s, FALSE)
Bool(b) == JV("bool", 0, <<>>, b)
\* a JSON array; n is its length
List(n) == JV("list", n, <<>>, FALSE)

\* `field in candidate`
Has(c, f) == c[f].t # "absent"
\* isinstance(v, (int, float)): bool is a subclass of int
IsNumber(v) == v.t \in {"num", "bool"}
\* the number Python computes with: True is 1 and False is 0
NumVal(v) == IF v.t = "bool" THEN (IF v.b THEN 1 ELSE 0) ELSE v.n
\* truth value of candidate.get(f): a missing key gives None
Truthy(v) ==
    CASE v.t = "bool" -> v.b
      [] v.t = "num"  -> v.n # 0
      [] v.t = "str"  -> v.s # <<>>
      [] v.t = "list" -> v.n > 0
      [] OTHER        -> FALSE
\* candidate.get(f, default)
GetOr(c, f, default) == IF Has(c, f) THEN c[f] ELSE default

CandidateFields == {"tag", "width", "height", "area", "id", "classList",
                    "keyWordSource", "keyWordHit", "isIframe"}
\* an element of adCandidates: a JSON object (obj) with its keys, or anything else
Object(tag, width, height, area, id, classList, source, hit, iframe) ==
    [obj |-> TRUE, tag |-> tag, width |-> width, height |-> height, area |-> area,
     id |-> id, classList |-> classList, keyWordSource |-> source,
     keyWordHit |-> hit, isIframe |-> iframe]
NonObject ==
    [obj |-> FALSE, tag |-> Missing, width |-> Missing, height |-> Missing,
     area |-> Missing, id |-> Missing, classList |-> Missing,
     keyWordSource |-> Missing, keyWordHit |-> Missing, isIframe |-> Missing]

---------------------------------------------------------------------------
(* validate_candidate (api_server.py:138-153) *)

\* an error message: its text, and the index and field it names (-1, "" if none)
Err(msg, index, field) == [msg |-> msg, index |-> index, field |-> field]
NoErr == Err("", -1, "")

required_fields == <<"tag", "width", "height", "area">>

\* isinstance(candidate.get(f), (int, float)) and candidate.get(f, 0) >= 0
ValidNumber(v) == IsNumber(v) /\ NumVal(v) >= 0

validate_candidate(candidate, index) ==
    LET missing == {i \in 1..Len(required_fields) : ~Has(candidate, required_fields[i])}
        firstMissing == CHOOSE i \in missing : \A j \in missing : i <= j
    IN  IF missing # {}
        THEN [ok |-> FALSE,
              error |-> Err("missing required field", index, required_fields[firstMissing])]
        ELSE IF ~ValidNumber(candidate.width)
        THEN [ok |-> FALSE, error |-> Err("has invalid", index, "width")]
        ELSE IF ~ValidNumber(candidate.height)
        THEN [ok |-> FALSE, error |-> Err("has invalid", index, "height")]
        ELSE IF ~ValidNumber(candidate.area)
        THEN [ok |-> FALSE, error |-> Err("has invalid", index, "area")]
        ELSE [ok |-> TRUE, error |-> NoErr]

---------------------------------------------------------------------------
(* extract_features (api_server.py:50-108) *)

ZeroVector == [i \in 1..10 |-> 0]

\* source_map.get(source, 0)
source_map(v) ==
    IF v.t # "str" THEN 0
    ELSE CASE v.s = <<"n","o","n","e">>     -> 0
           [] v.s = <<"t","e","x","t">>     -> 1
           [] v.s = <<"c","l","a","s","s">> -> 2
           [] v.s = <<"i","d">>             -> 3
           [] OTHER                         -> 0

\* tag_scores.get(tag, 0), tag already upper-cased
tag_scores(s) ==
    CASE s = <<"I","F","R","A","M","E">>     -> 3
      [] s = <<"D","I","V">>                 -> 2
      [] s = <<"I","M","G">>                 -> 1
      [] s = <<"S","E","C","T","I","O","N">> -> 1
      [] s = <<"A","S","I","D","E">>         -> 1
      [] OTHER                               -> 0

Min(a, b) == IF a <= b THEN a ELSE b

\* width / height if height > 0 else 0, capped at 10; in thousandths, truncated
aspect_ratio(width, height) ==
    IF height > 0 THEN Min((width * 1000) \div height, 10 * 1000) ELSE 0

\* the leaderboard rule alone
is_banner_leaderboard_only(width, height) == width >= 728 /\ height >= 90
is_banner(width, height) ==
    \/ (width >= 728 /\ height >= 90)
    \/ (width >= 300 /\ height >= 250)
    \/ (width >= 160 /\ height >= 600)
    \/ (width >= 320 /\ height >= 50)

\* what makes extract_features raise: an unhashable keyWordSource (line 85), a
\* comparison or division of a non-number (lines 88, 93, 101), tag.upper() of
\* a non-string (line 104)
ExtractRaises(candidate) ==
    \/ candidate.keyWordSource.t = "list"
    \/ (Has(candidate, "height") /\ ~IsNumber(candidate.height))
    \/ (Has(candidate, "width") /\ ~IsNumber(candidate.width))
    \/ (Has(candidate, "area") /\ ~IsNumber(candidate.area))
    \/ (Has(candidate, "tag") /\ candidate.tag.t # "str")

extract_features(candidate) ==
    LET width == NumVal(GetOr(candidate, "width", Num(0)))
        height == NumVal(GetOr(candidate, "height", Num(0)))
        area == NumVal(GetOr(candidate, "area", Num(0)))
        tag == Upper(GetOr(candidate, "tag", Str(<<>>)).s)
    IN  IF ExtractRaises(candidate)
        THEN [raised |-> TRUE, features |-> ZeroVector]
        ELSE [raised |-> FALSE,
              features |->
                << IF Truthy(candidate.keyWordHit) THEN 1 ELSE 0,
                   IF Truthy(candidate.isIframe) THEN 1 ELSE 0,
                   width, height, area,
                   source_map(candidate.keyWordSource),
                   aspect_ratio(width, height),
                   IF is_banner(width, height) THEN 1 ELSE 0,
                   IF area > 100000 THEN 1 ELSE 0,
                   tag_scores(tag) >>]

---------------------------------------------------------------------------
(* create_selector (api_server.py:110-125) *)

\* candidate.get(f, default) is a str, so that .strip() / .lower() works
IsStrOrMissing(v) == v.t \in {"str", "absent"}

create_selector(candidate) ==
    LET elem_id == Strip(GetOr(candidate, "id", Str(<<>>)).s)
        class_list == Strip(GetOr(candidate, "classList", Str(<<>>)).s)
        first_class == FirstToken(class_list)
        tag == GetOr(candidate, "tag", Str(<<"d","i","v">>))
    IN  IF ~IsStrOrMissing(candidate.id) \/ ~IsStrOrMissing(candidate.classList)
        THEN [raised |-> TRUE, s |-> <<>>]
        ELSE IF elem_id # <<>>
        THEN [raised |-> FALSE, s |-> <<"#">> \o elem_id]
        ELSE IF class_list # <<>> /\ first_class # <<>>
        THEN [raised |-> FALSE, s |-> <<".">> \o first_class]
        ELSE IF tag.t # "str"
        THEN [raised |-> TRUE, s |-> <<>>]
        ELSE [raised |-> FALSE, s |-> Lower(tag.s)]

---------------------------------------------------------------------------
(* The classification oracle: the unpickled classifier (api_server.py:282-283) *)

\* Probabilities of "ad" (thousandths) the stand-in oracles return.
ProbTable == <<0, 500, 501, 795, 799, 800, 1000>>

RECURSIVE SumSeq(_)
SumSeq(s) == IF s = <<>> THEN 0 ELSE Head(s) + SumSeq(Tail(s))

\* model.predict_proba(X)[i][1]: oracle m scores each row on its own; which
\* probability a row gets depends on the row and on the oracle.
predict_proba(m, row) == ProbTable[((SumSeq(row) + 2 * m) % Len(ProbTable)) + 1]
\* model.predict(X)[i]: the more probable class
predict_label(m, row) == IF predict_proba(m, row) > 500 THEN 1 ELSE 0

---------------------------------------------------------------------------
(* predict (api_server.py:155-332) *)

\* a response: HTTP status, the keys of its JSON object, and their values
Response(status, keys, error, preds, total, ads) ==
    [status |-> status, keys |-> keys, error |-> error, predictions |-> preds,
     total_scanned |-> total, ads_detected |-> ads]
NoResponse == Response(0, {}, NoErr, <<>>, 0, 0)
ErrorResponse(status, error) == Response(status, {"error"}, error, <<>>, 0, 0)
\* the two except handlers (lines 318-332) add the request_id
HandlerResponse(status, error) ==
    Response(status, {"error", "request_id"}, error, <<>>, 0, 0)
\* lines 242-246
EmptyResponse ==
    Response(200, {"predictions", "total_scanned", "ads_detected"}, NoErr, <<>>, 0, 0)

NoUse == [check |-> None, predict |-> None, proba |-> None]

\* a request: the Content-Length header, what request.get_json() does with the
\* body ("raises", or returns "none", "emptyobj" = {} or "obj" = a non-empty
\* object), and the adCandidates member of that object ("absent", "nonlist",
\* or "list" with its items)
Body(content_length, json, adc, items) ==
    [content_length |-> content_length, json |-> json, adc |-> adc, items |-> items]
NoBody == Body(0, "none", "absent", <<>>)

\* the cap forgotten
TruncateNever(items) == items
\* candidates[:MAX_CANDIDATES] (lines 235-237)
Truncate(items) ==
    IF Len(items) > MAX_CANDIDATES THEN SubSeq(items, 1, MAX_CANDIDATES) ELSE items

\* lines 249-258, for the candidate at (0-based) idx
CheckCandidate(candidate, idx) ==
    IF ~candidate.obj
    THEN [ok |-> FALSE, error |-> Err("must be an object", idx, "")]
    ELSE validate_candidate(candidate, idx)

\* the first candidate the validation loop rejects (1-based), 0 if none
FirstRejected(cs) ==
    LET bad == {i \in 1..Len(cs) : ~CheckCandidate(cs[i], i - 1).ok}
    IN  IF bad = {} THEN 0 ELSE CHOOSE i \in bad : \A j \in bad : i <= j

\* lines 263-271: the features of one item, zeros when extraction raised
FeaturesOrZeros(candidate) ==
    LET extracted == extract_features(candidate)
    IN  IF extracted.raised THEN ZeroVector ELSE extracted.features

\* line 294: int(proba[1] * 100)
Confidence(p) == (p * 100) \div 1000
\* the decision taken from the oracle's own label instead of the threshold
IsAdFromLabel(confidence, pred) == pred = 1
\* line 295
IsAd(confidence, pred) == confidence >= CONFIDENCE_THRESHOLD

\* lines 292-302: one result
Result(idx, pred, p, candidate) ==
    [index |-> idx, isAd |-> IsAd(Confidence(p), pred), confidence |-> Confidence(p),
     selector |-> create_selector(candidate).s]

\* lines 291-316
SuccessResponse(cs, preds, probas) ==
    LET results == [i \in 1..Len(cs) |-> Result(i - 1, preds[i], probas[i], cs[i])]
    IN  Response(200,
                 {"predictions", "total_scanned", "ads_detected", "request_id"},
                 NoErr, results, Len(cs),
                 Cardinality({i \in 1..Len(results) : results[i].isAd}))

\* the gates with the empty-batch short-circuit (lines 241-246) left out
GateResponseNoEmptyCheck(m, b) ==
    LET cs == Truncate(b.items)
        bad == FirstRejected(cs)
    IN  IF m = None THEN ErrorResponse(500, Err("Model not loaded", -1, ""))
        ELSE IF b.content_length > MAX_REQUEST_SIZE_MB * 1024 * 1024
        THEN ErrorResponse(413, Err("Request too large", -1, ""))
        ELSE IF b.json = "raises"
        THEN HandlerResponse(500, Err("Prediction failed", -1, ""))
        ELSE IF b.json \in {"none", "emptyobj"}
        THEN ErrorResponse(400, Err("Invalid JSON in request body", -1, ""))
        ELSE IF b.adc = "absent"
        THEN ErrorResponse(400, Err("Missing adCandidates in request body", -1, ""))
        ELSE IF b.adc # "list"
        THEN ErrorResponse(400, Err("adCandidates must be an array", -1, ""))
        ELSE IF bad # 0
        THEN ErrorResponse(400, CheckCandidate(cs[bad], bad - 1).error)
        ELSE NoResponse

\* lines 197-258: what predict answers before any feature is extracted;
\* NoResponse when the request passes every gate
GateResponse(m, b) ==
    LET cs == Truncate(b.items)
        bad == FirstRejected(cs)
    IN  IF m = None THEN ErrorResponse(500, Err("Model not loaded", -1, ""))
        ELSE IF b.content_length > MAX_REQUEST_SIZE_MB * 1024 * 1024
        THEN ErrorResponse(413, Err("Request too large", -1, ""))
        ELSE IF b.json = "raises"
        THEN HandlerResponse(500, Err("Prediction failed", -1, ""))
        ELSE IF b.json \in {"none", "emptyobj"}
        THEN ErrorResponse(400, Err("Invalid JSON in request body", -1, ""))
        ELSE IF b.adc = "absent"
        THEN ErrorResponse(400, Err("Missing adCandidates in request body", -1, ""))
        ELSE IF b.adc # "list"
        THEN ErrorResponse(400, Err("adCandidates must be an array", -1, ""))
        ELSE IF cs = <<>>
        THEN EmptyResponse
        ELSE IF bad # 0
        THEN ErrorResponse(400, CheckCandidate(cs[bad], bad - 1).error)
        ELSE NoResponse

\* the request gets as far as line 235, where `candidates` is capped
ReachesCap(m, b) ==
    /\ m # None
    /\ b.content_length <= MAX_REQUEST_SIZE_MB * 1024 * 1024
    /\ b.json = "obj"
    /\ b.adc = "list"

\* predict up to line 277: every gate, then the feature matrix
predict_begin(b) ==
    LET gate == GateResponse(model, b)
        cs == Truncate(b.items)
    IN  /\ ppc = "idle"
        /\ body' = b
        /\ used' = [NoUse EXCEPT !.check = model]
        /\ IF gate # NoResponse
           THEN /\ response' = gate
                /\ ppc' = "done"
                /\ candidates' = IF ReachesCap(model, b) THEN cs ELSE <<>>
                /\ UNCHANGED <<X, zeroed>>
           ELSE /\ candidates' = cs
                /\ X' = [i \in 1..Len(cs) |-> FeaturesOrZeros(cs[i])]
                /\ zeroed' = {i \in 1..Len(cs) : extract_features(cs[i]).raised}
                /\ ppc' = "extracted"
                /\ UNCHANGED response
        /\ UNCHANGED <<model, artifact, predictions, probabilities, rpc, loaded,
                       rresponse, hresponse, sel, ext, gen>>

\* line 282: predictions = model.predict(X)
call_predict ==
    /\ ppc = "extracted"
    /\ IF model = None
       THEN /\ response' = HandlerResponse(500, Err("Prediction failed", -1, ""))
            /\ ppc' = "done"
            /\ UNCHANGED <<predictions, used>>
       ELSE /\ predictions' = [i \in 1..Len(X) |-> predict_label(model, X[i])]
            /\ used' = [used EXCEPT !.predict = model]
            /\ ppc' = "predicted"
            /\ UNCHANGED response
    /\ UNCHANGED <<model, artifact, body, candidates, X, zeroed, probabilities,
                   rpc, loaded, rresponse, hresponse, sel, ext, gen>>

\* lines 283-332: probabilities = model.predict_proba(X), then the response;
\* a create_selector that raises ends in the generic handler
call_predict_proba ==
    /\ ppc = "predicted"
    /\ IF model = None
       THEN /\ response' = HandlerResponse(500, Err("Prediction failed", -1, ""))
            /\ UNCHANGED <<probabilities, used>>
       ELSE /\ probabilities' = [i \in 1..Len(X) |-> predict_proba(model, X[i])]
            /\ used' = [used EXCEPT !.proba = model]
            /\ response' =
                 IF \E i \in 1..Len(candidates) : create_selector(candidates[i]).raised
                 THEN HandlerResponse(500, Err("Prediction failed", -1, ""))
                 ELSE SuccessResponse(candidates, predictions,
                                      [i \in 1..Len(X) |-> predict_proba(model, X[i])])
    /\ ppc' = "done"
    /\ UNCHANGED <<model, artifact, body, candidates, X, zeroed, predictions,
                   rpc, loaded, rresponse, hresponse, sel, ext, gen>>

\* the response is sent; the worker takes the next request
predict_return ==
    /\ ppc = "done"
    /\ ppc' = "idle"
    /\ body' = NoBody
    /\ candidates' = <<>>
    /\ X' = <<>>
    /\ zeroed' = {}
    /\ predictions' = <<>>
    /\ probabilities' = <<>>
    /\ used' = NoUse
    /\ response' = NoResponse
    /\ UNCHANGED <<model, artifact, rpc, loaded, rresponse, hresponse, sel, ext, gen>>

---------------------------------------------------------------------------
(* load_model, reload_model, health_check (api_server.py:38-48, 127-136, 334-341) *)

NoReload == [status |-> 0, success |-> FALSE, message |-> ""]

\* load_model dropping the old oracle before it reads the new one
reload_begin_clearing ==
    /\ rpc = "idle"
    /\ loaded' = None
    /\ model' = None
    /\ rpc' = IF artifact # Absent THEN "open" ELSE "return"
    /\ UNCHANGED <<artifact, ppc, body, candidates, X, zeroed, predictions,
                   probabilities, used, response, rresponse, hresponse, sel, ext, gen>>

\* load_model unsetting the global when the file is missing
reload_begin_unsets_when_missing ==
    /\ rpc = "idle"
    /\ loaded' = None
    /\ model' = IF artifact = Absent THEN None ELSE model
    /\ rpc' = IF artifact # Absent THEN "open" ELSE "return"
    /\ UNCHANGED <<artifact, ppc, body, candidates, X, zeroed, predictions,
                   probabilities, used, response, rresponse, hresponse, sel, ext, gen>>

\* line 41: os.path.exists(MODEL_PATH); the else branch leaves `model` alone
reload_begin ==
    /\ rpc = "idle"
    /\ loaded' = None
    /\ rpc' = IF artifact # Absent THEN "open" ELSE "return"
    /\ UNCHANGED <<model, artifact, ppc, body, candidates, X, zeroed, predictions,
                   probabilities, used, response, rresponse, hresponse, sel, ext, gen>>

\* lines 42-43: open the file and unpickle it; either may raise, and then
\* reload_model ends in the framework's 500 response
reload_load ==
    /\ rpc = "open"
    /\ IF artifact \in Oracles
       THEN /\ loaded' = artifact
            /\ rpc' = "assign"
            /\ UNCHANGED rresponse
       ELSE /\ rresponse' = [status |-> 500, success |-> FALSE, message |-> "error"]
            /\ rpc' = "done"
            /\ UNCHANGED loaded
    /\ UNCHANGED <<model, artifact, ppc, body, candidates, X, zeroed, predictions,
                   probabilities, used, response, hresponse, sel, ext, gen>>

\* line 43: the global is rebound to the unpickled object
reload_assign ==
    /\ rpc = "assign"
    /\ model' = loaded
    /\ rpc' = "return"
    /\ UNCHANGED <<artifact, ppc, body, candidates, X, zeroed, predictions,
                   probabilities, used, response, loaded, rresponse, hresponse, sel, ext, gen>>

\* lines 338-341
reload_return ==
    /\ rpc = "return"
    /\ rresponse' = [status |-> 200, success |-> (model # None),
                     message |-> IF model # None THEN "Model reloaded"
                                 ELSE "Model not found"]
    /\ rpc' = "done"
    /\ UNCHANGED <<model, artifact, ppc, body, candidates, X, zeroed, predictions,
                   probabilities, used, response, loaded, hresponse, sel, ext, gen>>

\* the response is sent; the worker takes the next reload request
reload_finish ==
    /\ rpc = "done"
    /\ rpc' = "idle"
    /\ rresponse' = NoReload
    /\ loaded' = None
    /\ UNCHANGED <<model, artifact, ppc, body, candidates, X, zeroed, predictions,
                   probabilities, used, response, hresponse, sel, ext, gen>>

\* lines 128-136
health_check ==
    /\ hresponse' = [model_loaded |-> (model # None)]
    /\ UNCHANGED <<model, artifact, ppc, body, candidates, X, zeroed, predictions,
                   probabilities, used, response, rpc, loaded, rresponse, sel, ext, gen>>

\* The artifact is written by train_model.py (lines 277-278), may be caught
\* half-written, and may be removed by the operator.
artifact_changes ==
    /\ \E a \in {Absent, Corrupt} \cup Oracles :
          /\ a # artifact
          /\ artifact' = a
    /\ UNCHANGED <<model, ppc, body, candidates, X, zeroed, predictions,
                   probabilities, used, response, rpc, loaded, rresponse,
                   hresponse, sel, ext, gen>>

---------------------------------------------------------------------------
(* Requests *)

\* test_api.py:38-49
ClearAd ==
    Object(Str(<<"I","F","R","A","M","E">>), Num(728), Num(90), Num(65520),
           Str(<<"g","o","o","g","l","e","-","a","d","-","1">>),
           Str(<<"a","d","v","e","r","t","i","s","e","m","e","n","t">>),
           Str(<<"i","d">>), Bool(TRUE), Bool(TRUE))
\* test_api.py:54-65: no id, two classes
BannerAd ==
    Object(Str(<<"D","I","V">>), Num(300), Num(250), Num(75000),
           Str(<<>>), Str(<<"a","d","-","b","a","n","n","e","r"," ","s","i","d","e","b","a","r">>),
           Str(<<"c","l","a","s","s">>), Bool(TRUE), Bool(FALSE))
\* test_api.py:86-97
RegularArticle ==
    Object(Str(<<"A","R","T","I","C","L","E">>), Num(700), Num(1200), Num(840000),
           Str(<<"m","a","i","n","-","c","o","n","t","e","n","t">>),
           Str(<<"a","r","t","i","c","l","e","-","b","o","d","y"," ","c","o","n","t","e","n","t">>),
           Null, Bool(FALSE), Bool(FALSE))
\* the same record without the keyWordSource and keyWordMatch keys
ArticleRecord == [RegularArticle EXCEPT !.keyWordSource = Missing]
\* only the required fields, with an empty tag
BareEmptyTag ==
    Object(Str(<<>>), Num(0), Num(0), Num(0),
           Missing, Missing, Missing, Missing, Missing)
MissingWidth == [BannerAd EXCEPT !.width = Missing]
MissingTagAndArea == [BannerAd EXCEPT !.tag = Missing, !.area = Missing]
StringHeight == [BannerAd EXCEPT !.height = Str(<<"2","5","0">>)]
NullArea == [BannerAd EXCEPT !.area = Null]
NegativeWidth == [BannerAd EXCEPT !.width = Num(-1)]
BoolWidth == [BannerAd EXCEPT !.width = Bool(TRUE)]
\* a tag that is a number: with an id, and with no id and no class
NumberTagWithId == [ClearAd EXCEPT !.tag = Num(5)]
NumberTagBare == [BareEmptyTag EXCEPT !.tag = Num(5), !.width = Num(320), !.height = Num(50)]
\* a keyWordSource that is an array
ListSource == [BannerAd EXCEPT !.keyWordSource = List(1)]

PipelineCandidates ==
    {ClearAd, BannerAd, NonObject, MissingWidth, StringHeight, NegativeWidth,
     BoolWidth, NumberTagBare, ListSource}

RECURSIVE SeqsUpTo(_, _)
SeqsUpTo(S, n) ==
    IF n = 0 THEN {<<>>}
    ELSE SeqsUpTo(S, n - 1) \cup
         {Append(s, x) : s \in {q \in SeqsUpTo(S, n - 1) : Len(q) = n - 1}, x \in S}

\* well-formed requests with every batch of at most MaxBatch candidates
PipelineBodies == {Body(100, "obj", "list", items) : items \in SeqsUpTo(PipelineCandidates, MaxBatch)}

\* one request of every kind the handler tells apart
ServerBodies ==
    { Body(MAX_REQUEST_SIZE_MB * 1024 * 1024 + 1, "obj", "list", <<ClearAd>>),
      Body(MAX_REQUEST_SIZE_MB * 1024 * 1024, "obj", "list", <<ClearAd>>),
      Body(100, "raises", "absent", <<>>),
      Body(100, "none", "absent", <<>>),
      Body(100, "emptyobj", "absent", <<>>),
      Body(100, "obj", "absent", <<>>),
      Body(100, "obj", "nonlist", <<>>),
      Body(100, "obj", "list", <<>>),
      Body(100, "obj", "list", <<BannerAd, RegularArticle>>),
      Body(100, "obj", "list", <<ClearAd, NullArea>>),
      Body(100, "obj", "list", <<NumberTagBare>>) }

predict_pipeline == \E b \in PipelineBodies : predict_begin(b)
predict_server == \E b \in ServerBodies : predict_begin(b)

---------------------------------------------------------------------------
(* create_selector on its own *)

SelectorChars == {Space, "a", "B"}
SelectorStrings == SeqsUpTo(SelectorChars, MaxStrLen)
\* validated records: tag is present, of any JSON type; id and classList are free
SelectorCandidates ==
    { Object(tag, Num(1), Num(1), Num(1), id, cl, Missing, Missing, Missing) :
        tag \in {Str(s) : s \in SelectorStrings} \cup {Num(5)},
        id \in {Str(s) : s \in SelectorStrings} \cup {Missing, Null},
        cl \in {Str(s) : s \in SelectorStrings} \cup {Missing, Null} }

NoSel == [called |-> FALSE, candidate |-> NonObject, raised |-> FALSE, s |-> <<>>]

selector_call ==
    /\ ~sel.called
    /\ \E c \in SelectorCandidates :
          /\ validate_candidate(c, 0).ok
          /\ sel' = [called |-> TRUE, candidate |-> c,
                     raised |-> create_selector(c).raised, s |-> create_selector(c).s]
    /\ UNCHANGED <<model, artifact, ppc, body, candidates, X, zeroed, predictions,
                   probabilities, used, response, rpc, loaded, rresponse, hresponse, ext, gen>>

selector_return ==
    /\ sel.called
    /\ sel' = NoSel
    /\ UNCHANGED <<model, artifact, ppc, body, candidates, X, zeroed, predictions,
                   probabilities, used, response, rpc, loaded, rresponse, hresponse, ext, gen>>

---------------------------------------------------------------------------
(* extract_features on its own *)

\* widths and heights on and around the thresholds of lines 93-96
ExtractWidths == {0, 159, 160, 299, 300, 319, 320, 700, 727, 728}
ExtractHeights == {0, 49, 50, 89, 90, 249, 250, 599, 600, 1200}
ExtractCandidates ==
    { Object(tag, Num(w), Num(h), Num(w * h), Missing, Missing, source,
             Bool(hit), Bool(hit)) :
        tag \in {Str(<<"A","R","T","I","C","L","E">>), Str(<<"d","i","v">>)},
        w \in ExtractWidths, h \in ExtractHeights,
        source \in {Missing, Null, Str(<<"i","d">>)},
        hit \in BOOLEAN }
    \cup {ClearAd, BannerAd, RegularArticle, ArticleRecord, NumberTagBare, ListSource}

NoExt == [called |-> FALSE, candidate |-> NonObject, raised |-> FALSE,
          features |-> <<>>]

extract_call ==
    /\ ~ext.called
    /\ \E c \in ExtractCandidates :
          ext' = [called |-> TRUE, candidate |-> c,
                  raised |-> extract_features(c).raised,
                  features |-> extract_features(c).features]
    /\ UNCHANGED <<model, artifact, ppc, body, candidates, X, zeroed, predictions,
                   probabilities, used, response, rpc, loaded, rresponse,
                   hresponse, sel, gen>>

extract_return ==
    /\ ext.called
    /\ ext' = NoExt
    /\ UNCHANGED <<model, artifact, ppc, body, candidates, X, zeroed, predictions,
                   probabilities, used, response, rpc, loaded, rresponse,
                   hresponse, sel, gen>>

---------------------------------------------------------------------------
(* generate_training_data (train_model.py:13-195) *)

\* largest n_samples
MaxSamples == 5

\* round(n_samples * 0.4) in the place of int(...)
n_ads_rounded(n_samples) == (n_samples * 4 + 5) \div 10
\* line 26: int(n_samples * 0.4)
n_ads(n_samples) == (n_samples * 4) \div 10
\* line 109
n_not_ads(n_samples) == n_samples - n_ads(n_samples)

\* a generated feature vector: the loop that built it (lines 28-106 build the
\* ads, lines 111-189 the other content) and its position in generation order
Sample(k, branch) == [k |-> k, branch |-> branch]

\* X and y as the two loops leave them (lines 22-189)
GeneratedX(n_samples) ==
    [k \in 1..n_samples |->
        Sample(k, IF k <= n_ads(n_samples) THEN "ad" ELSE "content")]
GeneratedY(n_samples) ==
    [k \in 1..n_samples |-> IF k <= n_ads(n_samples) THEN 1 ELSE 0]

\* lines 192-194: zip, random.shuffle (the permutation p), unzip
Shuffle(Xs, ys, p) ==
    [X |-> [i \in 1..Len(Xs) |-> Xs[p[i]]], y |-> [i \in 1..Len(ys) |-> ys[p[i]]]]

NoGen == [called |-> FALSE, n_samples |-> 0, raised |-> FALSE, X |-> <<>>, y |-> <<>>]

\* generate_training_data(n_samples); with nothing generated, the unpacking
\* of zip(*combined) at line 194 raises
generate_call ==
    /\ ~gen.called
    /\ \E n \in 0..MaxSamples :
          IF n = 0
          THEN gen' = [called |-> TRUE, n_samples |-> n, raised |-> TRUE,
                       X |-> <<>>, y |-> <<>>]
          ELSE \E p \in Permutations(1..n) :
                  gen' = [called |-> TRUE, n_samples |-> n, raised |-> FALSE,
                          X |-> Shuffle(GeneratedX(n), GeneratedY(n), p).X,
                          y |-> Shuffle(GeneratedX(n), GeneratedY(n), p).y]
    /\ UNCHANGED <<model, artifact, ppc, body, candidates, X, zeroed, predictions,
                   probabilities, used, response, rpc, loaded, rresponse,
                   hresponse, sel, ext>>

generate_return ==
    /\ gen.called
    /\ gen' = NoGen
    /\ UNCHANGED <<model, artifact, ppc, body, candidates, X, zeroed, predictions,
                   probabilities, used, response, rpc, loaded, rresponse,
                   hresponse, sel, ext>>

---------------------------------------------------------------------------
(* Specifications *)

\* the process after import: load_model() has run once (line 48)
Started(a) ==
    /\ artifact = a
    /\ model = IF a = Absent THEN None ELSE a
    /\ ppc = "idle"
    /\ body = NoBody
    /\ candidates = <<>>
    /\ X = <<>>
    /\ zeroed = {}
    /\ predictions = <<>>
    /\ probabilities = <<>>
    /\ used = NoUse
    /\ response = NoResponse
    /\ rpc = "idle"
    /\ loaded = None
    /\ rresponse = NoReload
    /\ hresponse = [model_loaded |-> (a # Absent)]
    /\ sel = NoSel
    /\ ext = NoExt
    /\ gen = NoGen

\* the server: one /predict worker, one /reload-model worker, /health, and
\* the artifact changing on disk
Init == \E a \in {Absent} \cup Oracles : Started(a)
Next ==
    \/ predict_server
    \/ call_predict
    \/ call_predict_proba
    \/ predict_return
    \/ reload_begin
    \/ reload_load
    \/ reload_assign
    \/ reload_return
    \/ reload_finish
    \/ health_check
    \/ artifact_changes
Spec == Init /\ [][Next]_vars

\* the /predict pipeline with an oracle loaded, over every batch
InitPipeline == \E a \in Oracles : Started(a)
NextPipeline ==
    \/ predict_pipeline
    \/ call_predict
    \/ call_predict_proba
    \/ predict_return
SpecPipeline == InitPipeline /\ [][NextPipeline]_vars

\* create_selector over every validated record
InitSelector == Started(Absent)
NextSelector ==
    \/ selector_call
    \/ selector_return
SpecSelector == InitSelector /\ [][NextSelector]_vars

\* extract_features over records on and around its thresholds
InitExtract == Started(Absent)
NextExtract ==
    \/ extract_call
    \/ extract_return
SpecExtract == InitExtract /\ [][NextExtract]_vars

\* generate_training_data over every sample count and every shuffle
InitGenerate == Started(Absent)
NextGenerate ==
    \/ generate_call
    \/ generate_return
SpecGenerate == InitGenerate /\ [][NextGenerate]_vars

---------------------------------------------------------------------------
(* Properties *)

\* the /predict worker holds a finished response to a parsed adCandidates array
DoneList == ppc = "done" /\ body.json = "obj" /\ body.adc = "list"
OracleNotInvoked == used.predict = None /\ used.proba = None

\* a record the specification calls invalid: not an object, a required field
\* missing, or a width / height / area that is not a JSON number or is negative
FieldInvalid(c, f) == ~Has(c, f) \/ c[f].t # "num" \/ c[f].n < 0
InvalidRecord(c) ==
    \/ ~c.obj
    \/ ~Has(c, "tag")
    \/ \E f \in {"width", "height", "area"} : FieldInvalid(c, f)
FirstInvalid(cs) ==
    LET bad == {i \in 1..Len(cs) : InvalidRecord(cs[i])}
    IN  IF bad = {} THEN 0 ELSE CHOOSE i \in bad : \A j \in bad : i <= j

\* C1: with an oracle loaded, a request with an invalid record among the
\* retained candidates is rejected with a 400 error that names the index of the
\* first such record and the offending field, returns no predictions and does
\* not invoke the oracle.
C1_InvalidRecordRejectsRequest ==
    (DoneList /\ FirstInvalid(Truncate(body.items)) # 0) =>
        LET i == FirstInvalid(Truncate(body.items))
            c == Truncate(body.items)[i]
        IN  /\ response.status = 400
            /\ response.error.index = i - 1
            /\ c.obj =>
                  \E f \in {"tag", "width", "height", "area"} :
                      /\ response.error.field = f
                      /\ IF f = "tag" THEN ~Has(c, f) ELSE FieldInvalid(c, f)
            /\ response.predictions = <<>>
            /\ OracleNotInvoked

\* the response predict gives when oracle m serves the whole request b
PredictOutcome(m, b) ==
    LET cs == Truncate(b.items)
        rows == [i \in 1..Len(cs) |-> FeaturesOrZeros(cs[i])]
    IN  IF GateResponse(m, b) # NoResponse THEN GateResponse(m, b)
        ELSE IF \E i \in 1..Len(cs) : create_selector(cs[i]).raised
        THEN HandlerResponse(500, Err("Prediction failed", -1, ""))
        ELSE SuccessResponse(cs, [i \in 1..Len(cs) |-> predict_label(m, rows[i])],
                             [i \in 1..Len(cs) |-> predict_proba(m, rows[i])])

C3_IsAdIffThreshold ==
    \A i \in 1..Len(response.predictions) :
        response.predictions[i].isAd =
            (response.predictions[i].confidence >= CONFIDENCE_THRESHOLD)

\* a response with one result just under and one result at the threshold
C3_Witness ==
    /\ ppc = "done"
    /\ \E i \in 1..Len(response.predictions) :
          /\ response.predictions[i].confidence = CONFIDENCE_THRESHOLD - 1
          /\ ~response.predictions[i].isAd
          /\ predictions[i] = 1
    /\ \E i \in 1..Len(response.predictions) :
          /\ response.predictions[i].confidence = CONFIDENCE_THRESHOLD
          /\ response.predictions[i].isAd

\* round(p * 100) as Python rounds: to the nearest integer, halves to even
RoundPercent(p) ==
    LET q == (p * 100) \div 1000
        r == (p * 100) % 1000
    IN  IF r > 500 \/ (r = 500 /\ q % 2 = 1) THEN q + 1 ELSE q

\* C4: the reported confidence is round(p * 100), so that an item with
\* p * 100 >= 79.5 is reported with confidence >= 80 and decided isAd.
C4_ConfidenceIsRounded ==
    (ppc = "done" /\ response.status = 200) =>
        \A i \in 1..Len(response.predictions) :
            /\ response.predictions[i].confidence = RoundPercent(probabilities[i])
            /\ probabilities[i] * 100 >= 79500 =>
                  /\ response.predictions[i].confidence >= 80
                  /\ response.predictions[i].isAd

\* the /predict worker holds a finished response to an empty adCandidates array
DoneEmpty ==
    /\ DoneList
    /\ body.items = <<>>
    /\ body.content_length <= MAX_REQUEST_SIZE_MB * 1024 * 1024
IsEmptySuccess(r) ==
    /\ r.status = 200
    /\ {"predictions", "total_scanned", "ads_detected"} \subseteq r.keys
    /\ r.predictions = <<>>
    /\ r.total_scanned = 0
    /\ r.ads_detected = 0

\* C5 as stated: an empty adCandidates array is answered with the empty
\* success response, whether an oracle is loaded or not, and the oracle is not
\* invoked.
C5_EmptyAlwaysSucceeds == DoneEmpty => (IsEmptySuccess(response) /\ OracleNotInvoked)

\* C5 amended: an empty adCandidates array is answered with the empty success
\* response when an oracle is loaded as the request arrives, and with the 500
\* "Model not loaded" error when none is; the oracle is invoked in neither case.
C5_EmptyWithOracleLoaded ==
    DoneEmpty =>
        /\ used.check # None => IsEmptySuccess(response)
        /\ used.check = None =>
              /\ response.status = 500
              /\ response.error.msg = "Model not loaded"
        /\ OracleNotInvoked

\* both cases of the amended claim: an answered empty batch with an oracle ...
C5_Witness == DoneEmpty /\ used.check # None /\ IsEmptySuccess(response)
\* ... and one without
C5_WitnessNoOracle == DoneEmpty /\ used.check = None /\ response.status = 500

\* C6: when every retained record passes validation, an extraction failure
\* zeroes that item's features only, and the request succeeds with one
\* PredictionResult per retained record.
C6_ExtractionFailureIsSoft ==
    (DoneList /\ candidates # <<>> /\ FirstRejected(candidates) = 0) =>
        /\ \A i \in 1..Len(candidates) :
              X[i] = IF extract_features(candidates[i]).raised
                     THEN ZeroVector
                     ELSE extract_features(candidates[i]).features
        /\ response.status = 200
        /\ Len(response.predictions) = Len(candidates)

\* the selector the specification describes, for string-valued tag, id and
\* classList (the id and the class token taken after trimming)
SpecifiedSelector(c) ==
    LET id == Strip(GetOr(c, "id", Str(<<>>)).s)
        cl == Strip(GetOr(c, "classList", Str(<<>>)).s)
    IN  IF id # <<>> THEN <<"#">> \o id
        ELSE IF cl # <<>> THEN <<".">> \o FirstToken(cl)
        ELSE IF c.tag.s = <<>> THEN <<"d","i","v">>
        ELSE Lower(c.tag.s)

\* C7: for a validated record, create_selector returns '#'+id, else
\* '.'+first class, else the lower-cased tag, "div" for an empty tag; never
\* the empty string.
C7_SelectorPrecedence ==
    (/\ sel.called
     /\ sel.candidate.tag.t = "str"
     /\ IsStrOrMissing(sel.candidate.id)
     /\ IsStrOrMissing(sel.candidate.classList)) =>
        /\ ~sel.raised
        /\ sel.s = SpecifiedSelector(sel.candidate)
        /\ sel.s # <<>>

\* C8: every response of predict carries a request_id.
C8_EveryResponseHasRequestId == ppc = "done" => "request_id" \in response.keys

\* C9: reloadOracle reports success exactly when this call read the artifact
\* and replaced the active oracle with it.
C9_SuccessIffThisCallLoaded ==
    rpc = "done" => (rresponse.success <=> (loaded # None /\ model = loaded))

\* C10: every change of the shared oracle reference is one step from the
\* previous value to a completely unpickled oracle; once an oracle is set, no
\* reader finds the reference unset.
C10_AtomicSwap ==
    [][/\ model' # model => (rpc = "assign" /\ loaded \in Oracles /\ model' = loaded)
       /\ model # None => model' \in Oracles
       /\ (ppc' \in {"extracted", "predicted"} /\ used'.check # None) =>
             model' \in Oracles]_vars

\* a reload has replaced the oracle between two oracle calls of one request
C10_Witness ==
    /\ ppc = "predicted"
    /\ rpc = "return"
    /\ loaded \in Oracles
    /\ model = loaded
    /\ used.predict \in Oracles
    /\ used.predict # model

\* the /predict worker holds the response to a body that parsed as a JSON
\* object, within the size cap, with an oracle loaded as the request arrived
DoneParsedObject ==
    /\ ppc = "done"
    /\ used.check # None
    /\ body.content_length <= MAX_REQUEST_SIZE_MB * 1024 * 1024
    /\ body.json \in {"emptyobj", "obj"}
NamesAdCandidates(r) ==
    r.error.msg \in {"Missing adCandidates in request body",
                     "adCandidates must be an array"}

\* C11: with an oracle loaded, a JSON body with no adCandidates field (the
\* empty object included) or with an adCandidates that is not an array is
\* rejected with a 400 error that names adCandidates.
C11_MissingFieldIsNamed ==
    (DoneParsedObject /\ body.adc # "list") =>
        (response.status = 400 /\ NamesAdCandidates(response))

\* C12 as stated: extract_features of the article record is
\* [0,0,700,1200,840000,0,0.583,0,1,0], with isBannerSized = 0.
C12_ArticleVectorNotBanner ==
    (ext.called /\ ext.candidate = ArticleRecord) =>
        (~ext.raised /\ ext.features = <<0, 0, 700, 1200, 840000, 0, 583, 0, 1, 0>>)

\* C12 amended: extract_features of the article record is
\* [0,0,700,1200,840000,0,0.583,1,1,0]: a 700x1200 element is banner-sized by
\* the 300x250 rule, and its area is large.
C12_ArticleVector ==
    (ext.called /\ ext.candidate \in {ArticleRecord, RegularArticle}) =>
        (~ext.raised /\ ext.features = <<0, 0, 700, 1200, 840000, 0, 583, 1, 1, 0>>)

\* extract_features has run on the article record
C12_Witness ==
    /\ ext.called
    /\ ext.candidate = ArticleRecord
    /\ Len(ext.features) = 10
    /\ ext.features[8] = 1

\* how many of the returned labels are positive
Positives(ys) == Cardinality({i \in 1..Len(ys) : ys[i] = 1})
\* every returned vector still carries the label of the loop that built it,
\* and every generated vector is returned exactly once
LabelsAttached(Xs, ys) ==
    /\ Len(Xs) = Len(ys)
    /\ \A i \in 1..Len(Xs) : ys[i] = (IF Xs[i].branch = "ad" THEN 1 ELSE 0)
    /\ \A k \in 1..Len(Xs) : \E i \in 1..Len(Xs) : Xs[i].k = k

C14_OracleNeverUnloaded ==
    [][/\ model # None => model' # None
       /\ (rpc = "idle" /\ rpc' = "return") => model' = model
       /\ (model # None /\ hresponse' # hresponse) => hresponse'.model_loaded
       /\ (model # None /\ ppc = "idle" /\ ppc' = "done") =>
             response'.error.msg # "Model not loaded"]_vars

\* a reload that found no artifact has answered, and the oracle is still there
C14_Witness ==
    /\ rpc = "done"
    /\ rresponse.status = 200
    /\ loaded = None
    /\ artifact = Absent
    /\ model \in Oracles
    /\ hresponse.model_loaded

\* C15: within one predict request the loaded check, model.predict and
\* model.predict_proba are served by the same oracle.
C15_OneOraclePerRequest ==
    /\ used.predict # None => used.predict = used.check
    /\ used.proba # None => used.proba = used.predict

=============================================================================
